---- MODULE Spec2Model ----
(***************************************************************************)
(* Model of the two hand-written algorithms of the notebooks:              *)
(*   - min_edit_distance  (chapter_02_edit_distance.ipynb)                 *)
(*   - bpe_tokenizer      (Chapter_02_words_and_tokens.ipynb)              *)
(* Python strings are sequences of one-character strings; a list is a      *)
(* sequence; a dict is the sequence of its items in insertion order.       *)
(***************************************************************************)
EXTENDS Integers, Sequences, FiniteSets, TLC

VARIABLES
    ed_pc,          \* "idle": no call running; "done": min_edit_distance has run
    call,           \* the arguments of the last min_edit_distance call
    table,          \* the local numpy array `table` the call filled
    ret,            \* what the call gave back: a DataFrame or an exception
    res,            \* the notebook global `res` read at the end of the call
    corpus,         \* bpe_tokenizer.corpus, as the tokens count_tokens keeps
    n_merges,       \* bpe_tokenizer.n_merges
    n_merges_done,  \* bpe_tokenizer.n_merges_done
    token_counts,   \* bpe_tokenizer.token_counts: items [key, value] in dict order
    vocab,          \* bpe_tokenizer.vocab: a list of symbols
    log,            \* one record per merge step performed since construction
    last            \* the last merge(n) call: its argument and how it ended

edvars == <<ed_pc, call, table, ret, res>>
bpevars == <<corpus, n_merges, n_merges_done, token_counts, vocab, log, last>>
vars == <<edvars, bpevars>>

(***************************************************************************)
(* Bounds and inputs of the edit distance calls                            *)
(***************************************************************************)
MaxLen == 2
MaxCost == 2

Letters == {"a", "#"}
Costs == (0 - 1)..MaxCost

StringsUpTo(n) == UNION {[1..k -> Letters] : k \in 0..n}

intention == <<"i", "n", "t", "e", "n", "t", "i", "o", "n">>
execution == <<"e", "x", "e", "c", "u", "t", "i", "o", "n">>

StringPairs ==
    (StringsUpTo(MaxLen) \X StringsUpTo(MaxLen)) \cup {<<intention, execution>>}

Min2(x, y) == IF x <= y THEN x ELSE y
\* the least of the first and the last argument only
min_of_two(x, y, z) == Min2(x, z)
min(x, y, z) == Min2(x, Min2(y, z))

(***************************************************************************)
(* substitution_logic and min_edit_distance                                *)
(***************************************************************************)
\* a substitution that is charged also when the two letters are equal
substitution_logic_always(source_letter, target_letter, cost) == cost

substitution_logic(source_letter, target_letter, cost) ==
    IF source_letter = target_letter THEN 0 ELSE cost

\* '#{}'.format(s)
Prefixed(s) == <<"#">> \o s

\* np.zeros((n, m)), rows and columns indexed from 0
zeros(n, m) == [row \in 0..(n - 1) |-> [col \in 0..(m - 1) |-> 0]]

\* a first column that holds delete_cost in every cell after the first
RECURSIVE FillColumn0_flat(_, _, _, _)
FillColumn0_flat(t, row, n, delete_cost) ==
    IF row >= n THEN t
    ELSE FillColumn0_flat([t EXCEPT ![row][0] = delete_cost], row + 1, n, delete_cost)

RECURSIVE FillColumn0(_, _, _, _)
FillColumn0(t, row, n, delete_cost) ==
    IF row >= n THEN t
    ELSE FillColumn0([t EXCEPT ![row][0] = t[row - 1][0] + delete_cost],
                     row + 1, n, delete_cost)

\* a first row that holds insert_cost in every cell after the first
RECURSIVE FillRow0_flat(_, _, _, _)
FillRow0_flat(t, col, m, insert_cost) ==
    IF col >= m THEN t
    ELSE FillRow0_flat([t EXCEPT ![0][col] = insert_cost], col + 1, m, insert_cost)

RECURSIVE FillRow0(_, _, _, _)
FillRow0(t, col, m, insert_cost) ==
    IF col >= m THEN t
    ELSE FillRow0([t EXCEPT ![0][col] = t[0][col - 1] + insert_cost],
                  col + 1, m, insert_cost)

\* itertools.product(range(1,n), range(1,m)): row-major list of cells
product(n, m) ==
    [k \in 1..((n - 1) * (m - 1)) |->
        <<1 + ((k - 1) \div (m - 1)), 1 + ((k - 1) % (m - 1))>>]

\* a loop body that compares the symbols one place to the left, the '#' in
\* front of both strings among them
CellValue_shifted(t, source, target, row, col, insert_cost, delete_cost, substitute_cost) ==
    min(t[row - 1][col] + delete_cost,
        t[row - 1][col - 1]
            + substitution_logic(source[row], target[col], substitute_cost),
        t[row][col - 1] + insert_cost)

\* a loop body that never deletes: the cell above is not looked at
CellValue_nodelete(t, source, target, row, col, insert_cost, delete_cost, substitute_cost) ==
    Min2(t[row - 1][col - 1]
            + substitution_logic(source[row + 1], target[col + 1], substitute_cost),
         t[row][col - 1] + insert_cost)

\* the value the loop body stores in table[row, col]
CellValue(t, source, target, row, col, insert_cost, delete_cost, substitute_cost) ==
    min(t[row - 1][col] + delete_cost,
        t[row - 1][col - 1]
            + substitution_logic(source[row + 1], target[col + 1], substitute_cost),
        t[row][col - 1] + insert_cost)

\* a loop that stops before the last cell of the list
RECURSIVE FillCells_skiplast(_, _, _, _, _, _, _, _)
FillCells_skiplast(t, cells, k, source, target, insert_cost, delete_cost, substitute_cost) ==
    IF k >= Len(cells) THEN t
    ELSE LET row == cells[k][1]
             col == cells[k][2]
             v == CellValue(t, source, target, row, col,
                            insert_cost, delete_cost, substitute_cost)
         IN IF v \in Int
            THEN FillCells_skiplast([t EXCEPT ![row][col] = v], cells, k + 1,
                                    source, target,
                                    insert_cost, delete_cost, substitute_cost)
            ELSE t

RECURSIVE FillCells(_, _, _, _, _, _, _, _)
FillCells(t, cells, k, source, target, insert_cost, delete_cost, substitute_cost) ==
    IF k > Len(cells) THEN t
    ELSE LET row == cells[k][1]
             col == cells[k][2]
             v == CellValue(t, source, target, row, col,
                            insert_cost, delete_cost, substitute_cost)
         IN \* the cell is stored as a number before the loop goes on
            IF v \in Int
            THEN FillCells([t EXCEPT ![row][col] = v], cells, k + 1, source, target,
                           insert_cost, delete_cost, substitute_cost)
            ELSE t

\* the array `table` at the end of min_edit_distance (source, target unprefixed)
FilledTable(src, tgt, insert_cost, delete_cost, substitute_cost) ==
    LET source == Prefixed(src)
        target == Prefixed(tgt)
        n == Len(source)
        m == Len(target)
        t0 == zeros(n, m)
        t1 == FillColumn0(t0, 1, n, delete_cost)
        t2 == FillRow0(t1, 1, m, insert_cost)
    IN FillCells(t2, product(n, m), 1, source, target,
                 insert_cost, delete_cost, substitute_cost)

Rows(t) == Cardinality(DOMAIN t)
Cols(t) == IF Rows(t) = 0 THEN 0 ELSE Cardinality(DOMAIN t[0])

NoFrame == [kind |-> "none", error |-> "", values |-> zeros(0, 0),
            index |-> <<>>, columns |-> <<>>]

Raise(name) == [NoFrame EXCEPT !.kind = "error", !.error = name]

\* df = pd.DataFrame(res, columns=list(target), dtype=int); df.index = list(source)
\* `res` is not a local of the function: the name is looked up in the globals.
DataFrame(r, src, tgt) ==
    LET source == Prefixed(src)
        target == Prefixed(tgt)
    IN IF ~r.bound THEN Raise("NameError")
       ELSE IF Cols(r.values) # Len(target) THEN Raise("ValueError")
       ELSE IF Rows(r.values) # Len(source) THEN Raise("ValueError")
       ELSE [kind |-> "ok", error |-> "", values |-> r.values,
             index |-> source, columns |-> target]

\* a call that refuses negative costs before it builds the table
min_edit_distance_validating(c, r) ==
    IF c.insert_cost < 0 \/ c.delete_cost < 0 \/ c.substitute_cost < 0
    THEN [table |-> zeros(0, 0), ret |-> Raise("InvalidCostError")]
    ELSE [table |-> FilledTable(c.source, c.target,
                                c.insert_cost, c.delete_cost, c.substitute_cost),
          ret |-> DataFrame(r, c.source, c.target)]

\* the whole call: what is left in `table` and what comes back
min_edit_distance(c, r) ==
    [table |-> FilledTable(c.source, c.target,
                           c.insert_cost, c.delete_cost, c.substitute_cost),
     ret |-> DataFrame(r, c.source, c.target)]

(***************************************************************************)
(* The global `res`: unbound in a fresh kernel, or an array left behind by *)
(* an earlier cell of the session (the recorded output of the notebook     *)
(* shows the table of 'intention' / 'execution').                          *)
(***************************************************************************)
Unbound == [bound |-> FALSE, values |-> zeros(0, 0)]
Bound(t) == [bound |-> TRUE, values |-> t]

ResValues ==
    {Unbound,
     Bound(FilledTable(<<"a">>, <<"#">>, 1, 1, 2)),
     Bound(FilledTable(intention, execution, 1, 1, 2))}

NoCall == [source |-> <<>>, target |-> <<>>,
           insert_cost |-> 1, delete_cost |-> 1, substitute_cost |-> 2]

(***************************************************************************)
(* bpe_tokenizer: strings, lists and dicts                                 *)
(***************************************************************************)
MaxCorpus == 2      \* tokens in a corpus
MaxN == 2           \* largest argument of merge(n)
HashSeeds == 2      \* hash seeds of the interpreter that are told apart

EndOfWord == <<"<", "/", "W", ">">>         \* '</W>'

Str_ab == <<"a", "b">>
Str_ba == <<"b", "a">>
Str_aaa == <<"a", "a", "a">>
Str_tag == <<"<", "/", "W">>                 \* the token '</W'
Str_marker == EndOfWord                      \* the token '</W>'

Words == {Str_ab, Str_ba, Str_aaa, Str_tag, Str_marker}

low == <<"l", "o", "w">>
lowest == <<"l", "o", "w", "e", "s", "t">>
newer == <<"n", "e", "w", "e", "r">>
wider == <<"w", "i", "d", "e", "r">>
new == <<"n", "e", "w">>

Times(w, k) == [i \in 1..k |-> w]

\* example_text = ['low'] * 5 + ['lowest'] * 2 + ['newer'] * 6 + ...
example_text ==
    Times(low, 5) \o Times(lowest, 2) \o Times(newer, 6) \o Times(wider, 3)
        \o Times(new, 2)

Corpora == (UNION {[1..k -> Words] : k \in 0..MaxCorpus}) \cup {example_text}

\* x in lst
InList(x, lst) == \E i \in 1..Len(lst) : lst[i] = x

\* list(key): the characters of a string, each a string of its own
list(key) == [i \in 1..Len(key) |-> <<key[i]>>]

\* ''.join(symbols)
RECURSIVE join(_)
join(symbols) ==
    IF symbols = <<>> THEN <<>> ELSE Head(symbols) \o join(Tail(symbols))

\* ' '.join(symbols)
RECURSIVE spacejoin(_)
spacejoin(symbols) ==
    IF symbols = <<>> THEN <<>>
    ELSE IF Len(symbols) = 1 THEN Head(symbols)
    ELSE Head(symbols) \o <<" ">> \o spacejoin(Tail(symbols))

\* token.split(): the maximal runs of non-blank characters
RECURSIVE SplitFrom(_, _, _, _)
SplitFrom(s, i, done, cur) ==
    IF i > Len(s) THEN (IF cur = <<>> THEN done ELSE Append(done, cur))
    ELSE IF s[i] # " " THEN SplitFrom(s, i + 1, done, Append(cur, s[i]))
    ELSE IF cur = <<>> THEN SplitFrom(s, i + 1, done, <<>>)
    ELSE SplitFrom(s, i + 1, Append(done, cur), <<>>)

split(s) == SplitFrom(s, 1, <<>>, <<>>)

\* a dict is the sequence of its items; d[key] = value keeps the place of a
\* key that is already there
HasKey(d, key) == \E i \in 1..Len(d) : d[i].key = key
Index(d, key) == CHOOSE i \in 1..Len(d) : d[i].key = key
Get(d, key, default) == IF HasKey(d, key) THEN d[Index(d, key)].value ELSE default
Set(d, key, value) ==
    IF HasKey(d, key)
    THEN [d EXCEPT ![Index(d, key)] = [key |-> key, value |-> value]]
    ELSE Append(d, [key |-> key, value |-> value])

\* a counter that notes each token once, however often it occurs
RECURSIVE CounterUpdate_presence(_, _)
CounterUpdate_presence(counter, tokens) ==
    IF tokens = <<>> THEN counter
    ELSE IF HasKey(counter, Head(tokens))
    THEN CounterUpdate_presence(counter, Tail(tokens))
    ELSE CounterUpdate_presence(Set(counter, Head(tokens), 1), Tail(tokens))

\* Counter.update(tokens)
RECURSIVE CounterUpdate(_, _)
CounterUpdate(counter, tokens) ==
    IF tokens = <<>> THEN counter
    ELSE IF HasKey(counter, Head(tokens))
    THEN CounterUpdate(Set(counter, Head(tokens), Get(counter, Head(tokens), 0) + 1),
                       Tail(tokens))
    ELSE CounterUpdate(Set(counter, Head(tokens), 1), Tail(tokens))

\* keys made of the characters alone, without the end-of-word marker
RECURSIVE MakeFrom_nomarker(_, _, _)
MakeFrom_nomarker(counts, i, new_token_counts) ==
    IF i > Len(counts) THEN new_token_counts
    ELSE MakeFrom_nomarker(counts, i + 1,
                           Set(new_token_counts, spacejoin(list(counts[i].key)),
                               counts[i].value))

RECURSIVE MakeFrom(_, _, _)
MakeFrom(counts, i, new_token_counts) ==
    IF i > Len(counts) THEN new_token_counts
    ELSE LET characters == list(counts[i].key) \o <<EndOfWord>>
             new_key == spacejoin(characters)
         IN MakeFrom(counts, i + 1, Set(new_token_counts, new_key, counts[i].value))

make_bpe_style_tokens(counts) == MakeFrom(counts, 1, <<>>)

count_tokens(corp) == make_bpe_style_tokens(CounterUpdate(<<>>, corp))

\* a list that takes every symbol, also one it holds already
AddAll_list(seen, symbols) == seen \o symbols

\* the symbols of the keys in the order of their first occurrence
RECURSIVE AddAll(_, _)
AddAll(seen, symbols) ==
    IF symbols = <<>> THEN seen
    ELSE IF InList(Head(symbols), seen) THEN AddAll(seen, Tail(symbols))
    ELSE AddAll(Append(seen, Head(symbols)), Tail(symbols))

\* the symbols of the keys without the last symbol of each key
RECURSIVE SymbolsFrom_unmarked(_, _, _)
SymbolsFrom_unmarked(counts, i, seen) ==
    IF i > Len(counts) THEN seen
    ELSE LET characters == split(counts[i].key)
         IN SymbolsFrom_unmarked(counts, i + 1,
                                 AddAll(seen, SubSeq(characters, 1, Len(characters) - 1)))

\* the symbols of the first key only
SymbolsFrom_first(counts, i, seen) ==
    IF counts = <<>> THEN seen ELSE AddAll(seen, split(counts[1].key))

RECURSIVE SymbolsFrom(_, _, _)
SymbolsFrom(counts, i, seen) ==
    IF i > Len(counts) THEN seen
    ELSE SymbolsFrom(counts, i + 1, AddAll(seen, split(counts[i].key)))

Rotate(lst, k) ==
    IF lst = <<>> THEN lst
    ELSE [i \in 1..Len(lst) |-> lst[1 + ((i - 1 + k) % Len(lst))]]

\* initialize_vocab: list(vocab) of a set of strings; the order of the list
\* depends on the hash seed of the interpreter
initialize_vocab(counts, seed) == Rotate(SymbolsFrom(counts, 1, <<>>), seed)

(***************************************************************************)
(* bpe_tokenizer: the merge step                                           *)
(***************************************************************************)
\* a count of the keys a pair occurs in, whatever their frequency
RECURSIVE CountKey_unweighted(_, _, _, _)
CountKey_unweighted(pairs, characters, index, value) ==
    IF index > Len(characters) - 1 THEN pairs
    ELSE LET pair == <<characters[index], characters[index + 1]>>
         IN IF HasKey(pairs, pair)
            THEN CountKey_unweighted(Set(pairs, pair, Get(pairs, pair, 0) + 1),
                                     characters, index + 1, value)
            ELSE CountKey_unweighted(Set(pairs, pair, 1), characters, index + 1, value)

\* the inner loop of find_most_common_pair over one key
RECURSIVE CountKey(_, _, _, _)
CountKey(pairs, characters, index, value) ==
    IF index > Len(characters) - 1 THEN pairs
    ELSE LET pair == <<characters[index], characters[index + 1]>>
         IN IF HasKey(pairs, pair)
            THEN CountKey(Set(pairs, pair, Get(pairs, pair, 0) + value),
                          characters, index + 1, value)
            ELSE CountKey(Set(pairs, pair, value), characters, index + 1, value)

RECURSIVE CountAll(_, _, _)
CountAll(pairs, counts, i) ==
    IF i > Len(counts) THEN pairs
    ELSE CountAll(CountKey(pairs, split(counts[i].key), 1, counts[i].value),
                  counts, i + 1)

\* the dict `pairs` at the end of the outer loop
PairCounts(counts) == CountAll(<<>>, counts, 1)

\* max(pairs, key=pairs.get) keeps the last key whose value is not smaller
RECURSIVE MaxFromLast(_, _, _)
MaxFromLast(pairs, i, best) ==
    IF i > Len(pairs) THEN best
    ELSE MaxFromLast(pairs, i + 1,
                     IF pairs[i].value >= pairs[best].value THEN i ELSE best)

\* max(pairs, key=pairs.get): the first key, in dict order, of the largest value
RECURSIVE MaxFrom(_, _, _)
MaxFrom(pairs, i, best) ==
    IF i > Len(pairs) THEN best
    ELSE MaxFrom(pairs, i + 1,
                 IF pairs[i].value > pairs[best].value THEN i ELSE best)

NoPair == <<<<>>, <<>>>>

\* max(pairs, key=pairs.get, default=...) would give a pair also when there is none
find_most_common_pair_default(counts) ==
    LET pairs == PairCounts(counts)
    IN IF pairs = <<>> THEN [error |-> "", pair |-> NoPair]
       ELSE [error |-> "", pair |-> pairs[MaxFrom(pairs, 1, 1)].key]

\* find_most_common_pair; max() of an empty dict raises ValueError
find_most_common_pair(counts) ==
    LET pairs == PairCounts(counts)
    IN IF pairs = <<>> THEN [error |-> "ValueError", pair |-> NoPair]
       ELSE [error |-> "", pair |-> pairs[MaxFrom(pairs, 1, 1)].key]

\* the new symbol put in front of the list instead
modify_vocab_front(v, new_character) == <<new_character>> \o v

modify_vocab(v, new_character) == Append(v, new_character)

\* a loop that merges nothing: every symbol goes to the new key as it is
Scan_keep(characters, new_characters, v) == new_characters \o characters

\* a loop that forgets the symbol left over at the end
RECURSIVE Scan_droplast(_, _, _)
Scan_droplast(characters, new_characters, v) ==
    IF Len(characters) > 1
    THEN LET merged_characters == join(SubSeq(characters, 1, 2))
         IN IF InList(merged_characters, v)
            THEN Scan_droplast(SubSeq(characters, 3, Len(characters)),
                               Append(new_characters, merged_characters), v)
            ELSE Scan_droplast(Tail(characters),
                               Append(new_characters, characters[1]), v)
    ELSE new_characters

\* the while loop of modify_tokens over the symbols of one key
RECURSIVE Scan(_, _, _)
Scan(characters, new_characters, v) ==
    IF Len(characters) > 1
    THEN LET merged_characters == join(SubSeq(characters, 1, 2))
         IN IF InList(merged_characters, v)
            THEN Scan(SubSeq(characters, 3, Len(characters)),
                      Append(new_characters, merged_characters), v)
            ELSE Scan(Tail(characters), Append(new_characters, characters[1]), v)
    ELSE IF Len(characters) = 1 THEN Append(new_characters, characters[1])
    ELSE new_characters

\* a rewrite that stores 1 for every new key
RECURSIVE ModifyFrom_unit(_, _, _, _)
ModifyFrom_unit(counts, i, modified_token_frequencies, v) ==
    IF i > Len(counts) THEN modified_token_frequencies
    ELSE LET new_token == spacejoin(Scan(split(counts[i].key), <<>>, v))
         IN ModifyFrom_unit(counts, i + 1,
                            Set(modified_token_frequencies, new_token, 1), v)

RECURSIVE ModifyFrom(_, _, _, _)
ModifyFrom(counts, i, modified_token_frequencies, v) ==
    IF i > Len(counts) THEN modified_token_frequencies
    ELSE LET new_token == spacejoin(Scan(split(counts[i].key), <<>>, v))
         IN ModifyFrom(counts, i + 1,
                       Set(modified_token_frequencies, new_token, counts[i].value), v)

\* modify_tokens(new_character): the argument is not used by the method
modify_tokens(counts, v, new_character) == ModifyFrom(counts, 1, <<>>, v)

\* range(n) of merge runs the body one time too many
Iterations_inclusive(n) == IF n >= 0 THEN n + 1 ELSE 0

\* for i in range(n): the number of times the body runs
Iterations(n) == IF n > 0 THEN n ELSE 0

\* a loop whose failing step has put its symbol into vocab before it fails
RECURSIVE MergeLoop_late(_, _)
MergeLoop_late(st, todo) ==
    IF todo = 0 THEN st
    ELSE LET found == find_most_common_pair(st.token_counts)
             merged_pair == join(found.pair)
             v == modify_vocab(st.vocab, merged_pair)
         IN IF found.error # "" THEN [st EXCEPT !.error = found.error, !.vocab = v]
            ELSE LET tc == modify_tokens(st.token_counts, v, merged_pair)
                 IN MergeLoop_late([st EXCEPT
                                       !.vocab = v,
                                       !.token_counts = tc,
                                       !.log = Append(@, [pair |-> found.pair,
                                                          before |-> st.token_counts,
                                                          after |-> tc])],
                                   todo - 1)

\* the body of the loop of merge, run `todo` more times; st is the object
RECURSIVE MergeLoop(_, _)
MergeLoop(st, todo) ==
    IF todo = 0 THEN st
    ELSE LET found == find_most_common_pair(st.token_counts)
         IN IF found.error # "" THEN [st EXCEPT !.error = found.error]
            ELSE LET merged_pair == join(found.pair)
                     v == modify_vocab(st.vocab, merged_pair)
                     tc == modify_tokens(st.token_counts, v, merged_pair)
                 IN MergeLoop([st EXCEPT
                                  !.vocab = v,
                                  !.token_counts = tc,
                                  !.log = Append(@, [pair |-> found.pair,
                                                     before |-> st.token_counts,
                                                     after |-> tc])],
                              todo - 1)

NoLast == [called |-> FALSE, default |-> FALSE, n |-> 0, error |-> "",
           steps_before |-> 0]

\* bpe_tokenizer(corpus, n_merges)
BpeInit ==
    /\ corpus \in Corpora
    /\ n_merges \in {MaxN}
    /\ n_merges_done = 0
    /\ token_counts = count_tokens(corpus)
    /\ \E seed \in 0..(HashSeeds - 1) :
          vocab = initialize_vocab(count_tokens(corpus), seed)
    /\ log = <<>>
    /\ last = NoLast
    /\ ed_pc = "idle"
    /\ call = NoCall
    /\ table = zeros(0, 0)
    /\ ret = NoFrame
    /\ res = Unbound

\* merge(n), and merge() for n = None
Merge(default, arg) ==
    LET n == IF default THEN n_merges ELSE arg
        st == MergeLoop([token_counts |-> token_counts, vocab |-> vocab,
                         log |-> log, error |-> ""],
                        Iterations(n))
    IN /\ token_counts' = st.token_counts
       /\ vocab' = st.vocab
       /\ log' = st.log
       /\ n_merges_done' = IF st.error = "" THEN n_merges_done + n ELSE n_merges_done
       /\ last' = [called |-> TRUE, default |-> default, n |-> n, error |-> st.error,
                   steps_before |-> Len(log)]
       /\ UNCHANGED <<corpus, n_merges>>
       /\ UNCHANGED edvars

\* (a negative n lowers n_merges_done: the model does not take it below -1)
MergeN ==
    \E arg \in (0 - 1)..MaxN :
        /\ arg < 0 => n_merges_done >= 0
        /\ Merge(FALSE, arg)
MergeDefault == Merge(TRUE, 0)

(***************************************************************************)
(* The two notebooks are run apart: each specification leaves the state of *)
(* the other notebook as it starts.                                        *)
(***************************************************************************)
EdInit ==
    /\ ed_pc = "idle"
    /\ call = NoCall
    /\ table = zeros(0, 0)
    /\ ret = NoFrame
    /\ res \in ResValues
    /\ corpus = <<>>
    /\ n_merges = MaxN
    /\ n_merges_done = 0
    /\ token_counts = <<>>
    /\ vocab = <<>>
    /\ log = <<>>
    /\ last = NoLast

\* a cell calls min_edit_distance(source, target, ...)
MinEditDistance ==
    /\ ed_pc = "idle"
    /\ \E p \in StringPairs, ic \in Costs, dc \in Costs, sc \in Costs :
          LET c == [source |-> p[1], target |-> p[2],
                    insert_cost |-> ic, delete_cost |-> dc, substitute_cost |-> sc]
              out == min_edit_distance(c, res)
          IN /\ call' = c
             /\ table' = out.table
             /\ ret' = out.ret
    /\ ed_pc' = "done"
    /\ UNCHANGED res
    /\ UNCHANGED bpevars

\* the cell has shown its output; the locals of the call are gone
CellDone ==
    /\ ed_pc = "done"
    /\ ed_pc' = "idle"
    /\ call' = NoCall
    /\ table' = zeros(0, 0)
    /\ ret' = NoFrame
    /\ UNCHANGED res
    /\ UNCHANGED bpevars

EdNext == MinEditDistance \/ CellDone

SpecED == EdInit /\ [][EdNext]_vars

BpeNext == MergeN \/ MergeDefault

SpecBPE == BpeInit /\ [][BpeNext]_vars

\* one more step asked for: merge(1)
MergeOne == Merge(FALSE, 1)

\* max() of line 898 has something to choose from: the step does not raise
PairExists == find_most_common_pair(token_counts).error = ""

\* A caller that goes on stepping: while a pair exists, merge(1) is not put
\* off for ever.  This is weak fairness of the successful step, written
\* with its enabling condition spelled out (a step that finds a pair always
\* changes the object, so PairExists is exactly when it can happen).
SpecBPEStepping ==
    BpeInit /\ [][BpeNext]_vars /\ ([]<>(~PairExists) \/ []<><<MergeOne>>_vars)

(***************************************************************************)
(* Edit scripts: the cheapest way to turn one string into another by       *)
(* single-symbol insertions, deletions and substitutions, found by search  *)
(* in the graph of strings (no table, no recurrence).                      *)
(***************************************************************************)
EditStrings == StringsUpTo(MaxLen + 1)

Insertions(s) ==
    {SubSeq(s, 1, k) \o <<x>> \o SubSeq(s, k + 1, Len(s)) : k \in 0..Len(s), x \in Letters}
        \cap EditStrings
Deletions(s) ==
    {SubSeq(s, 1, k - 1) \o SubSeq(s, k + 1, Len(s)) : k \in 1..Len(s)}
Substitutions(s) ==
    {[s EXCEPT ![k] = x] : k \in 1..Len(s), x \in Letters} \ {s}

\* no distance is as large as Far
Far == 2 * (MaxLen + 1) * MaxCost + 1

SetMin(S) == CHOOSE x \in S : \A y \in S : x <= y
SetMax(S) == CHOOSE x \in S : \A y \in S : y <= x

\* D[<<u, v>>] is the least cost of a script from u to v found so far; Relax
\* allows one more edit at the end of every script (the last edit makes v out
\* of w: it deletes the symbol whose insertion into v gives w, and so on)
Relax(D, ic, dc, sc) ==
    [p \in EditStrings \X EditStrings |->
        SetMin({D[p]}
               \cup {Min2(Far, D[<<p[1], w>>] + dc) : w \in Insertions(p[2])}
               \cup {Min2(Far, D[<<p[1], w>>] + ic) : w \in Deletions(p[2])}
               \cup {Min2(Far, D[<<p[1], w>>] + sc) : w \in Substitutions(p[2])})]

RECURSIVE Cheapest(_, _, _, _)
Cheapest(D, ic, dc, sc) ==
    LET E == Relax(D, ic, dc, sc)
    IN IF E = D THEN D ELSE Cheapest(E, ic, dc, sc)

NoEdits == [p \in EditStrings \X EditStrings |-> IF p[1] = p[2] THEN 0 ELSE Far]

\* the least total cost of a script from u to v, for every choice of costs:
\* the set of all <<<<ic, dc, sc>>, D>>
EditCosts == {<<c, Cheapest(NoEdits, c[1], c[2], c[3])>> :
                 c \in (0..MaxCost) \X (0..MaxCost) \X (0..MaxCost)}

EditCost(ic, dc, sc, u, v) ==
    (CHOOSE e \in EditCosts : e[1] = <<ic, dc, sc>>)[2][<<u, v>>]

NonNegativeCosts(c) ==
    c.insert_cost >= 0 /\ c.delete_cost >= 0 /\ c.substitute_cost >= 0

Short(c) == Len(c.source) <= MaxLen /\ Len(c.target) <= MaxLen

\* C1: with non-negative costs every cell [i][j] of the table the call filled
\* is the least total cost of any sequence of single-symbol insertions,
\* deletions and substitutions turning the first i symbols of source into the
\* first j symbols of target.
C1_TableIsMinimumEditCost ==
    (ed_pc = "done" /\ NonNegativeCosts(call) /\ Short(call)) =>
        \A i \in 0..Len(call.source), j \in 0..Len(call.target) :
            table[i][j] =
                EditCost(call.insert_cost, call.delete_cost, call.substitute_cost,
                         SubSeq(call.source, 1, i), SubSeq(call.target, 1, j))

\* a call where a substitution, a deletion and an insertion all compete
C1_Witness ==
    /\ ed_pc = "done"
    /\ call.source = <<"a", "#">>
    /\ call.target = <<"#", "#">>
    /\ call.insert_cost = 1 /\ call.delete_cost = 2 /\ call.substitute_cost = 1
    /\ table[2][2] = 1

DefaultCall(src, tgt) ==
    [source |-> src, target |-> tgt,
     insert_cost |-> 1, delete_cost |-> 1, substitute_cost |-> 2]

\* C2: min_edit_distance('intention', 'execution') with the default costs
\* yields a 10 x 10 table whose bottom-right cell, the distance, is 8.
C2_IntentionExecutionYields8 ==
    (ed_pc = "done" /\ call = DefaultCall(intention, execution)) =>
        /\ ret.kind = "ok"
        /\ Rows(ret.values) = 10 /\ Cols(ret.values) = 10
        /\ ret.values[9][9] = 8

\* C4: a call with a negative cost fails with InvalidCostError and fills no
\* table, and a call fails only if one of its costs is negative.
C4_NegativeCostsRejected ==
    ed_pc = "done" =>
        /\ ~NonNegativeCosts(call) =>
              (ret.kind = "error" /\ ret.error = "InvalidCostError"
                 /\ table = zeros(0, 0))
        /\ NonNegativeCosts(call) => ret.kind = "ok"

\* C4 (as amended): the call never fails with InvalidCostError: whatever the
\* sign of the costs, it fills the whole table, row 0 and column 0 by
\* cumulative insert and delete cost and every other cell by the recurrence;
\* if it fails, it fails on the global res (NameError when res is unbound,
\* ValueError when the shape of res does not fit), never on a cost.
C4_CostsAreNotValidated ==
    ed_pc = "done" =>
        /\ ret.error # "InvalidCostError"
        /\ Rows(table) = Len(call.source) + 1
        /\ Cols(table) = Len(call.target) + 1
        /\ \A i \in 0..Len(call.source) : table[i][0] = i * call.delete_cost
        /\ \A j \in 0..Len(call.target) : table[0][j] = j * call.insert_cost
        /\ \A i \in 1..Len(call.source), j \in 1..Len(call.target) :
              table[i][j] =
                  min(table[i - 1][j] + call.delete_cost,
                      table[i - 1][j - 1]
                          + (IF call.source[i] = call.target[j]
                             THEN 0 ELSE call.substitute_cost),
                      table[i][j - 1] + call.insert_cost)
        /\ ret.kind = "error" =>
              \/ ret.error = "NameError" /\ ~res.bound
              \/ /\ ret.error = "ValueError" /\ res.bound
                 /\ \/ Rows(res.values) # Len(call.source) + 1
                    \/ Cols(res.values) # Len(call.target) + 1

\* a call with all three costs negative that returns a value
C4_Witness ==
    /\ ed_pc = "done"
    /\ call.insert_cost < 0 /\ call.delete_cost < 0 /\ call.substitute_cost < 0
    /\ call.source = <<"a">> /\ call.target = <<"#">>
    /\ table[1][1] = 0 - 2
    /\ ret.kind = "ok"

\* C10: the value returned is the table the call filled for its own
\* arguments, with len(source)+1 rows and len(target)+1 columns; it depends
\* on nothing but the arguments.
C10_ReturnsTheTableItFilled ==
    ed_pc = "done" =>
        /\ ret.kind = "ok"
        /\ ret.values = table
        /\ Rows(ret.values) = Len(call.source) + 1
        /\ Cols(ret.values) = Len(call.target) + 1

(***************************************************************************)
(* The distance of a call: the bottom-right cell of what the call gives    *)
(* back, and the same cell of the array the call filled                    *)
(***************************************************************************)
Last(c) == <<Len(c.source), Len(c.target)>>

\* the distance of the call: the bottom-right cell of the array it filled
Distance == table[Last(call)[1]][Last(call)[2]]

\* the same cell of the array a call with other sequences fills
Filled(src, tgt, ic, dc, sc) == FilledTable(src, tgt, ic, dc, sc)[Len(src)][Len(tgt)]

C12_DistanceToItselfIsZero ==
    (ed_pc = "done" /\ NonNegativeCosts(call) /\ call.source = call.target) =>
        Distance = 0

\* a sequence of two different symbols against itself, all costs positive
C12_Witness ==
    /\ ed_pc = "done"
    /\ call.source = <<"a", "#">> /\ call.target = call.source
    /\ call.insert_cost = 1 /\ call.delete_cost = 1 /\ call.substitute_cost = 1
    /\ Distance = 0

\* C13: for non-negative costs with insert_cost = delete_cost the distance
\* from S to T is the distance from T to S.
C13_Symmetry ==
    (ed_pc = "done" /\ NonNegativeCosts(call)
        /\ call.insert_cost = call.delete_cost) =>
        Distance = Filled(call.target, call.source,
                          call.insert_cost, call.delete_cost, call.substitute_cost)

\* sequences of different lengths: one direction deletes where the other inserts
C13_Witness ==
    /\ ed_pc = "done"
    /\ call.source = <<"#", "a">> /\ call.target = <<"#">>
    /\ call.insert_cost = 1 /\ call.delete_cost = 1 /\ call.substitute_cost = 2
    /\ Distance = 1
    /\ Filled(call.target, call.source, 1, 1, 2) = 1

MetricCosts(c) ==
    /\ NonNegativeCosts(c)
    /\ c.insert_cost = c.delete_cost
    /\ c.substitute_cost <= c.insert_cost + c.delete_cost

\* C14: for non-negative costs with insert_cost = delete_cost and
\* substitute_cost <= insert_cost + delete_cost,
\* distance(A, C) <= distance(A, B) + distance(B, C) for every B.
C14_TriangleInequality ==
    (ed_pc = "done" /\ MetricCosts(call)) =>
        \A B \in StringsUpTo(MaxLen) :
            Distance
                <= Filled(call.source, B,
                          call.insert_cost, call.delete_cost, call.substitute_cost)
                     + Filled(B, call.target,
                              call.insert_cost, call.delete_cost, call.substitute_cost)

\* a call whose distance is met with equality by the way through the empty
\* sequence and strictly undercut by no way
C14_Witness ==
    /\ ed_pc = "done"
    /\ call.source = <<"a">> /\ call.target = <<"#">>
    /\ call.insert_cost = 1 /\ call.delete_cost = 1 /\ call.substitute_cost = 2
    /\ Distance = 2
    /\ Filled(call.source, <<>>, 1, 1, 2) + Filled(<<>>, call.target, 1, 1, 2) = 2

\* the subsequence of s at the places I, and the longest one s and t share
Kth(I, k) == CHOOSE i \in I : Cardinality({j \in I : j < i}) = k - 1
Pick(s, I) == [k \in 1..Cardinality(I) |-> s[Kth(I, k)]]
Subsequences(s) == {Pick(s, I) : I \in SUBSET (1..Len(s))}
LongestCommonSubsequence(s, t) ==
    SetMax({Len(u) : u \in Subsequences(s) \cap Subsequences(t)})

\* C15: with the default costs the distance is the least number of
\* single-symbol insertions and deletions that turn source into target:
\* len(source) + len(target) - 2 * (length of a longest common subsequence).
C15_DefaultCostsCountInsertionsAndDeletions ==
    (ed_pc = "done" /\ call = DefaultCall(call.source, call.target)) =>
        Distance =
            Len(call.source) + Len(call.target)
                - 2 * LongestCommonSubsequence(call.source, call.target)

\* 'intention' and 'execution' share e, t, i, o, n: 9 + 9 - 2 * 5
C15_Witness ==
    /\ ed_pc = "done"
    /\ call = DefaultCall(intention, execution)
    /\ Distance = 8
    /\ LongestCommonSubsequence(intention, execution) = 5

\* C22: every inner cell of the table the call filled is the least of the
\* cell above plus delete_cost, the cell to the left plus insert_cost and the
\* cell above left plus 0 or substitute_cost, as the i-th symbol of the
\* caller's source and the j-th symbol of the caller's target are equal or
\* not; the '#' the function puts in front is compared with nothing.
C22_InnerCellsFollowTheRecurrence ==
    ed_pc = "done" =>
        \A i \in 1..Len(call.source), j \in 1..Len(call.target) :
            table[i][j] =
                SetMin({table[i - 1][j] + call.delete_cost,
                        table[i - 1][j - 1]
                            + (IF call.source[i] = call.target[j]
                               THEN 0 ELSE call.substitute_cost),
                        table[i][j - 1] + call.insert_cost})

\* sequences that hold '#' themselves: 'a#' against '##' differ in their
\* first symbols only, which a comparison with the '#' in front would miss
C22_Witness ==
    /\ ed_pc = "done"
    /\ call.source = <<"a", "#">> /\ call.target = <<"#", "#">>
    /\ call.insert_cost = 2 /\ call.delete_cost = 2 /\ call.substitute_cost = 1
    /\ table[1][1] = 1
    /\ table[2][2] = 1

(***************************************************************************)
(* The merge step as the specification words it                            *)
(***************************************************************************)
Symbols(item) == split(item.key)

\* the positions of a key at which the pair occurs, overlapping ones included
Occurrences(pair, symbols) ==
    {j \in 1..(Len(symbols) - 1) : <<symbols[j], symbols[j + 1]>> = pair}

RECURSIVE WeightedCountFrom(_, _, _)
WeightedCountFrom(pair, counts, i) ==
    IF i > Len(counts) THEN 0
    ELSE counts[i].value * Cardinality(Occurrences(pair, Symbols(counts[i])))
            + WeightedCountFrom(pair, counts, i + 1)

\* the sum over all keys of frequency x number of occurrences
WeightedCount(pair, counts) == WeightedCountFrom(pair, counts, 1)

AdjacentPairs(counts) ==
    UNION {{<<Symbols(counts[i])[j], Symbols(counts[i])[j + 1]>> :
               j \in 1..(Len(Symbols(counts[i])) - 1)} : i \in 1..Len(counts)}

NoAdjacentPair(counts) == \A i \in 1..Len(counts) : Len(Symbols(counts[i])) <= 1

\* left-to-right, non-overlapping replacement of a followed by b, and of
\* nothing else
RECURSIVE ReplacePair(_, _, _)
ReplacePair(symbols, a, b) ==
    IF Len(symbols) < 2 THEN symbols
    ELSE IF symbols[1] = a /\ symbols[2] = b
         THEN <<a \o b>> \o ReplacePair(SubSeq(symbols, 3, Len(symbols)), a, b)
         ELSE <<symbols[1]>> \o ReplacePair(Tail(symbols), a, b)

StepsOfLastCall == (last.steps_before + 1)..Len(log)

\* (every step is a step of the last call in the state that call leaves)
\* C3: a merge step for the selected pair (a, b) rewrites every key by
\* replacing, left to right and without overlap, each a followed by b with
\* ab, and merges no other adjacent pair of any key.
C3_OnlyTheSelectedPairIsMerged ==
    \A k \in StepsOfLastCall :
        /\ Len(log[k].after) = Len(log[k].before)
        /\ \A i \in 1..Len(log[k].before) :
              split(log[k].after[i].key) =
                  ReplacePair(split(log[k].before[i].key),
                              log[k].pair[1], log[k].pair[2])

\* C5: a merge step asked for when no adjacent pair exists fails with
\* InsufficientDataError.
C5_NoPairRaisesInsufficientDataError ==
    (last.called /\ Len(log) - last.steps_before < Iterations(last.n)) =>
        last.error = "InsufficientDataError"

\* C5 (as amended): a merge step asked for when no adjacent pair exists (every
\* key a single symbol, or no key at all) fails with the ValueError of max()
\* on the empty pair table; the step adds no symbol to vocab and leaves
\* token_counts alone, and no step is ever done for a pair that does not occur.
C5_NoPairRaisesValueError ==
    last.called =>
        /\ (Len(log) - last.steps_before < Iterations(last.n))
              <=> last.error = "ValueError"
        /\ last.error \in {"", "ValueError"}
        /\ last.error = "ValueError" =>
              /\ NoAdjacentPair(token_counts)
              /\ Len(vocab) = Len(initialize_vocab(count_tokens(corpus), 0)) + Len(log)
              /\ token_counts = IF log = <<>> THEN count_tokens(corpus)
                                ELSE log[Len(log)].after
        /\ \A k \in StepsOfLastCall : log[k].pair \in AdjacentPairs(log[k].before)

\* merge(2) that did one step and failed on the second
C5_Witness ==
    /\ last.called /\ last.n = 2
    /\ Len(log) = last.steps_before + 1
    /\ last.error = "ValueError"
    /\ NoAdjacentPair(token_counts)
    /\ token_counts # <<>>

\* C6: the pair find_most_common_pair returns occurs in some key, and no
\* adjacent pair has a strictly larger aggregate count (frequency of the key
\* times number of positions, summed over the keys).
C6_SelectedPairHasMaximalCount ==
    \A k \in StepsOfLastCall :
        /\ log[k].pair \in AdjacentPairs(log[k].before)
        /\ \A q \in AdjacentPairs(log[k].before) :
              WeightedCount(q, log[k].before) <= WeightedCount(log[k].pair, log[k].before)

\* the textbook corpus after its first step: (e, r) with 6 + 3 occurrences,
\* where counting keys instead of occurrences would have chosen another pair
C6_Witness ==
    /\ corpus = example_text
    /\ Len(log) = 1
    /\ log[1].pair = <<<<"e">>, <<"r">>>>
    /\ WeightedCount(log[1].pair, log[1].before) = 9
    /\ WeightedCount(<<<<"l">>, <<"o">>>>, log[1].before) = 7

\* the first place of the scan (key by key, each key left to right) at which
\* a pair is met
FirstPlace(pair, counts) ==
    LET i == CHOOSE i \in 1..Len(counts) :
                 /\ Occurrences(pair, Symbols(counts[i])) # {}
                 /\ \A h \in 1..(i - 1) : Occurrences(pair, Symbols(counts[h])) = {}
    IN <<i, SetMin(Occurrences(pair, Symbols(counts[i])))>>

Before(x, y) == x[1] < y[1] \/ (x[1] = y[1] /\ x[2] < y[2])

MaximalPairs(counts) ==
    LET largest == SetMax({WeightedCount(r, counts) : r \in AdjacentPairs(counts)})
    IN {q \in AdjacentPairs(counts) : WeightedCount(q, counts) = largest}

\* the run of the same corpus under hash seed 0
ReferenceRun(steps) ==
    MergeLoop([token_counts |-> count_tokens(corpus),
               vocab |-> initialize_vocab(count_tokens(corpus), 0),
               log |-> <<>>, error |-> ""], steps)

\* C7: among the pairs of maximal count the one met first in the scan of the
\* keys in stored order, each key left to right, is selected; the sequence
\* of steps and token_counts are the same whatever the order in which the set
\* of initial symbols was listed.
C7_SelectionIsDeterministic ==
    /\ \A k \in StepsOfLastCall :
          LET tied == MaximalPairs(log[k].before)
          IN /\ log[k].pair \in tied
             /\ \A q \in tied \ {log[k].pair} :
                   Before(FirstPlace(log[k].pair, log[k].before),
                          FirstPlace(q, log[k].before))
    /\ LET run == ReferenceRun(Len(log))
       IN log = run.log /\ token_counts = run.token_counts

\* a tie of four pairs, with an initial vocabulary listed in another order
\* than under seed 0
C7_Witness ==
    /\ corpus = <<Str_ab, Str_ba>>
    /\ Len(log) = 1
    /\ Cardinality(MaximalPairs(log[1].before)) = 4
    /\ log[1].pair = <<<<"a">>, <<"b">>>>
    /\ vocab[1] # initialize_vocab(count_tokens(corpus), 0)[1]

\* the pairs the reference implementation of the book prints for the corpus
ReferenceTrace ==
    << <<<<"e">>, <<"r">>>>,
       <<<<"e", "r">>, EndOfWord>>,
       <<<<"n">>, <<"e">>>>,
       <<<<"n", "e">>, <<"w">>>>,
       <<<<"l">>, <<"o">>>>,
       <<<<"l", "o">>, <<"w">>>>,
       <<<<"n", "e", "w">>, <<"e", "r">> \o EndOfWord>>,
       <<<<"l", "o", "w">>, EndOfWord>> >>

\* example_tokenizer.vocab[-8:] as recorded in the notebook
RecordedMerges ==
    << <<"e", "r">>, <<"e", "r">> \o EndOfWord, <<"n", "e">>, <<"n", "e", "w">>,
       <<"l", "o">>, <<"l", "o", "w">>, <<"n", "e", "w", "e", "r">> \o EndOfWord,
       <<"l", "o", "w">> \o EndOfWord >>

\* C8: on low x5, lowest x2, newer x6, wider x3, new x2 the first eight steps
\* select (e, r), (er, </W>), ... and append er, er</W>, ne, new, lo, low,
\* newer</W>, low</W> to vocab, as the reference implementation prints them.
C8_TextbookTrace ==
    corpus = example_text =>
        \A k \in 1..Len(log) :
            k <= 8 =>
                /\ log[k].pair = ReferenceTrace[k]
                /\ vocab[Len(vocab) - Len(log) + k] = RecordedMerges[k]

C8_Witness ==
    /\ corpus = example_text
    /\ Len(log) = 8
    /\ vocab[Len(vocab)] = <<"l", "o", "w">> \o EndOfWord

\* C9: a merge(n) that returns has applied the step n times, one after the
\* other: vocab is the vocab before the call followed by the n merged symbols,
\* each step starts from the token_counts the step before left; merge()
\* without an argument takes n_merges for n.
C9_MergeAppliesNSteps ==
    [][(last'.error = "" /\ last'.n >= 0) =>
          /\ last'.default => last'.n = n_merges
          /\ Len(log') = Len(log) + last'.n
          /\ Len(vocab') = Len(vocab) + last'.n
          /\ SubSeq(vocab', 1, Len(vocab)) = vocab
          /\ \A k \in 1..last'.n :
                /\ vocab'[Len(vocab) + k] = join(log'[Len(log) + k].pair)
                /\ log'[Len(log) + k].before =
                      IF k = 1 THEN token_counts ELSE log'[Len(log) + k - 1].after
          /\ token_counts' = IF last'.n = 0 THEN token_counts
                             ELSE log'[Len(log')].after]_vars

\* merge() with n_merges = 2 after an earlier step
C9_Witness ==
    /\ last.called /\ last.default /\ last.error = ""
    /\ last.n = MaxN
    /\ last.steps_before = 1
    /\ Len(log) = last.steps_before + last.n

(***************************************************************************)
(* What every state after construction and any number of steps keeps       *)
(***************************************************************************)
RECURSIVE SumValues(_, _)
SumValues(counts, i) ==
    IF i > Len(counts) THEN 0 ELSE counts[i].value + SumValues(counts, i + 1)

NotBlank(c) == c # " "

\* the characters of a key without the blanks between its symbols
Concatenation(key) == SelectSeq(key, NotBlank)

\* no blank at either end and no two blanks in a row
SingleSpaced(key) ==
    /\ key # <<>>
    /\ key[1] # " " /\ key[Len(key)] # " "
    /\ \A i \in 1..(Len(key) - 1) : ~(key[i] = " " /\ key[i + 1] = " ")

\* C17: every key of token_counts is a non-empty sequence of symbols separated
\* by single blanks, and every symbol of every key is in vocab.
C17_KeysAreSequencesOfVocabSymbols ==
    \A i \in 1..Len(token_counts) :
        /\ SingleSpaced(token_counts[i].key)
        /\ \A j \in 1..Len(Symbols(token_counts[i])) :
              /\ Symbols(token_counts[i])[j] # <<>>
              /\ InList(Symbols(token_counts[i])[j], vocab)

\* after two steps on two words: keys of merged symbols, all of them in vocab
C17_Witness ==
    /\ corpus = <<Str_ab, Str_aaa>>
    /\ Len(log) = 2
    /\ \E i \in 1..Len(token_counts) :
          \E j \in 1..Len(Symbols(token_counts[i])) :
              /\ Len(Symbols(token_counts[i])[j]) > 1
              /\ Symbols(token_counts[i])[j] # EndOfWord
              /\ InList(Symbols(token_counts[i])[j], vocab)

\* C18: a merge step leaves as many keys as it found (no two keys are
\* rewritten to the same key), the keys it leaves are pairwise different, and
\* the i-th key it leaves is the i-th key it found, rewritten, with the
\* frequency of that key.
C18_StepPreservesFrequencies ==
    \A k \in StepsOfLastCall :
        /\ Len(log[k].after) = Len(log[k].before)
        /\ \A i, j \in 1..Len(log[k].after) :
              log[k].after[i].key = log[k].after[j].key => i = j
        /\ \A i \in 1..Len(log[k].before) :
              /\ Concatenation(log[k].after[i].key) = Concatenation(log[k].before[i].key)
              /\ log[k].after[i].value = log[k].before[i].value

\* the first step on the textbook corpus: it rewrites the keys of 'newer'
\* (6 occurrences) and 'wider' (3 occurrences) and leaves the others alone
C18_Witness ==
    /\ corpus = example_text
    /\ Len(log) = 1
    /\ Len(log[1].after) = 5
    /\ log[1].before[3].value = 6 /\ log[1].after[3].value = 6
    /\ log[1].before[4].value = 3 /\ log[1].after[4].value = 3
    /\ log[1].after[3].key # log[1].before[3].key
    /\ log[1].after[4].key # log[1].before[4].key
    /\ log[1].after[1].key = log[1].before[1].key

\* C19: vocab never holds the same symbol twice: every step appends a symbol
\* that vocab did not hold, so the set of symbols grows strictly with each step.
C19_VocabularyGrowsStrictly ==
    /\ \A i, j \in 1..Len(vocab) : vocab[i] = vocab[j] => i = j
    /\ Cardinality({vocab[i] : i \in 1..Len(vocab)})
          = Cardinality({vocab[i] : i \in 1..(Len(vocab) - Len(log))}) + Len(log)

\* the words of the corpus in the order of their first occurrence
RECURSIVE DistinctWords(_, _)
DistinctWords(seen, words) ==
    IF words = <<>> THEN seen
    ELSE IF InList(Head(words), seen) THEN DistinctWords(seen, Tail(words))
    ELSE DistinctWords(Append(seen, Head(words)), Tail(words))

\* a string without the end-of-word marker at its end
StripMarker(s) ==
    IF Len(s) >= Len(EndOfWord)
          /\ SubSeq(s, Len(s) - Len(EndOfWord) + 1, Len(s)) = EndOfWord
    THEN SubSeq(s, 1, Len(s) - Len(EndOfWord))
    ELSE s

\* C20: at construction and after any number of steps the key of every word
\* of the corpus, its symbols concatenated and the end-of-word marker
\* stripped, is the word.
C20_KeysSpellTheWords ==
    LET words == DistinctWords(<<>>, corpus)
    IN /\ Len(token_counts) = Len(words)
       /\ \A i \in 1..Len(words) :
             StripMarker(Concatenation(token_counts[i].key)) = words[i]

\* the textbook corpus after eight steps: 'newer' is one symbol with the marker
C20_Witness ==
    /\ corpus = example_text
    /\ Len(log) = 8
    /\ Symbols(token_counts[3]) = << <<"n", "e", "w", "e", "r">> \o EndOfWord >>
    /\ StripMarker(Concatenation(token_counts[3].key)) = newer

\* the key construction gives a word: its characters, then the marker, one
\* blank between any two of them
InitialKey(w) ==
    [k \in 1..(2 * Len(w) + Len(EndOfWord)) |->
        IF k > 2 * Len(w) THEN EndOfWord[k - 2 * Len(w)]
        ELSE IF k % 2 = 1 THEN w[(k + 1) \div 2]
        ELSE " "]

OccurrencesIn(w, corp) == Cardinality({j \in 1..Len(corp) : corp[j] = w})

RECURSIVE StatsWord(_, _, _, _)
StatsWord(pairs, symbols, i, freq) ==
    IF i > Len(symbols) - 1 THEN pairs
    ELSE LET pair == <<symbols[i], symbols[i + 1]>>
         IN IF HasKey(pairs, pair)
            THEN StatsWord(Set(pairs, pair, Get(pairs, pair, 0) + freq),
                           symbols, i + 1, freq)
            ELSE StatsWord(Set(pairs, pair, freq), symbols, i + 1, freq)

RECURSIVE StatsFrom(_, _, _)
StatsFrom(pairs, v, k) ==
    IF k > Len(v) THEN pairs
    ELSE StatsFrom(StatsWord(pairs, split(v[k].key), 1, v[k].value), v, k + 1)

get_stats(v) == StatsFrom(<<>>, v, 1)

\* (?<!\S) and (?!\S) at place p of a word for a match of length n
NoSymbolBefore(word, p) == p = 1 \/ word[p - 1] = " "
NoSymbolAfter(word, p, n) == p + n > Len(word) \/ word[p + n] = " "

\* p.sub(repl, word): the matches of the bigram from left to right, none
\* overlapping another, each replaced; every other character is kept
RECURSIVE sub(_, _, _, _, _)
sub(bigram, repl, word, p, out) ==
    IF p > Len(word) THEN out
    ELSE IF /\ p + Len(bigram) - 1 <= Len(word)
            /\ SubSeq(word, p, p + Len(bigram) - 1) = bigram
            /\ NoSymbolBefore(word, p)
            /\ NoSymbolAfter(word, p, Len(bigram))
    THEN sub(bigram, repl, word, p + Len(bigram), out \o repl)
    ELSE sub(bigram, repl, word, p + 1, Append(out, word[p]))

RECURSIVE MergeVocabFrom(_, _, _, _)
MergeVocabFrom(pair, v_in, k, v_out) ==
    IF k > Len(v_in) THEN v_out
    ELSE LET w_out == sub(spacejoin(pair), join(pair), v_in[k].key, 1, <<>>)
         IN MergeVocabFrom(pair, v_in, k + 1, Set(v_out, w_out, v_in[k].value))

merge_vocab(pair, v_in) == MergeVocabFrom(pair, v_in, 1, <<>>)

\* one turn of the loop of the reference: best and the new dict
ReferenceStep(v) ==
    LET pairs == get_stats(v)
        best == pairs[MaxFrom(pairs, 1, 1)].key
    IN [best |-> best, vocab |-> merge_vocab(best, v)]

\* C23: started from the same dict of word frequencies in the same order of
\* keys, the class and the reference implementation select the same pair at
\* every step and hold the same dict after every step (each step of the
\* class is compared with the step of the reference from the dict the class
\* held before it, which is the dict of the reference as long as they agree).
C23_AgreesWithReference ==
    \A k \in StepsOfLastCall :
        LET ref == ReferenceStep(log[k].before)
        IN /\ log[k].pair = ref.best
           /\ log[k].after = ref.vocab

\* C24: a merge call that returns normally, whatever its n (0, negative and
\* the default included), adds to n_merges_done the number of symbols it
\* appended to vocab; so after calls that all return normally n_merges_done
\* is len(vocab) minus the size of the initial vocab.
C24_CounterCountsAppendedSymbols ==
    [][(last'.called /\ last'.error = "") =>
          n_merges_done' - n_merges_done = Len(vocab') - Len(vocab)]_vars

\* C25: a merge(n) that fails for want of a pair after k < n steps of its own
\* leaves the k steps applied (vocab is the old vocab followed by the k merged
\* symbols, token_counts is what the k-th step left, or the old one for k = 0)
\* and n_merges_done as it was; no pair is left in token_counts.
C25_FailedMergeKeepsItsSteps ==
    [][(last'.called /\ last'.error # "") =>
          LET k == Len(log') - Len(log)
          IN /\ 0 <= k /\ k < last'.n
             /\ SubSeq(log', 1, Len(log)) = log
             /\ Len(vocab') = Len(vocab) + k
             /\ SubSeq(vocab', 1, Len(vocab)) = vocab
             /\ \A h \in 1..k : vocab'[Len(vocab) + h] = join(log'[Len(log) + h].pair)
             /\ token_counts' = IF k = 0 THEN token_counts ELSE log'[Len(log')].after
             /\ NoAdjacentPair(token_counts')
             /\ n_merges_done' = n_merges_done]_vars

\* merge(1), then merge(2) that does one step and fails on its second: two
\* symbols appended, n_merges_done still 1
C25_Witness ==
    /\ last.called /\ last.error = "ValueError"
    /\ last.n = 2 /\ last.steps_before = 1
    /\ Len(log) = 2
    /\ n_merges_done = 1
    /\ Len(vocab) = Len(initialize_vocab(count_tokens(corpus), 0)) + 2

RECURSIVE TotalSymbols(_, _)
TotalSymbols(counts, i) ==
    IF i > Len(counts) THEN 0
    ELSE Len(Symbols(counts[i])) + TotalSymbols(counts, i + 1)

EveryKeyIsOneSymbol == \A i \in 1..Len(token_counts) : Len(Symbols(token_counts[i])) = 1

\* C26: every merge step leaves fewer symbols, summed over the keys, than it
\* found; and a caller that goes on stepping reaches a state in which every
\* key is a single symbol, where no pair exists, and stays there.
C26_StepsShrinkKeysUntilNoPairIsLeft ==
    /\ [](\A k \in StepsOfLastCall :
             TotalSymbols(log[k].after, 1) < TotalSymbols(log[k].before, 1))
    /\ <>[](EveryKeyIsOneSymbol /\ NoAdjacentPair(token_counts))

\* two words merged all the way: 'a b </W>' and 'b a </W>' are one symbol
\* each after four steps
C26_Witness ==
    /\ corpus = <<Str_ab, Str_ba>>
    /\ Len(log) = 4
    /\ TotalSymbols(count_tokens(corpus), 1) = 6
    /\ TotalSymbols(token_counts, 1) = 2
    /\ EveryKeyIsOneSymbol

\* C27: vocab is ordered by the merges: the k-th of the steps done so far
\* put its symbol at the k-th place after the initial symbols, that symbol is
\* the first symbol of the chosen pair followed by the second, both were in
\* vocab before it, and the pair was adjacent in a key the step found.
C27_VocabIsOrderedByMerges ==
    \A k \in 1..Len(log) :
        LET place == Len(vocab) - Len(log) + k
            earlier == SubSeq(vocab, 1, place - 1)
        IN /\ place >= 1
           /\ vocab[place] = log[k].pair[1] \o log[k].pair[2]
           /\ InList(log[k].pair[1], earlier)
           /\ InList(log[k].pair[2], earlier)
           /\ log[k].pair \in AdjacentPairs(log[k].before)

\* four steps on the textbook corpus: er, er</W>, ne, new close the list
C27_Witness ==
    /\ corpus = example_text
    /\ Len(log) = 4
    /\ SubSeq(vocab, Len(vocab) - 3, Len(vocab))
          = << <<"e", "r">>, <<"e", "r">> \o EndOfWord, <<"n", "e">>, new >>

\* C28: once a step is done, rewriting the keys again with the symbol just
\* merged changes nothing, and no key holds two adjacent symbols whose
\* concatenation is a member of vocab.
C28_KeyRewriteIsIdempotent ==
    log # <<>> =>
        /\ modify_tokens(token_counts, vocab, vocab[Len(vocab)]) = token_counts
        /\ \A pair \in AdjacentPairs(token_counts) :
              ~InList(pair[1] \o pair[2], vocab)

\* the corpus with the words at places i and j exchanged
Exchange(corp, i, j) ==
    [k \in 1..Len(corp) |-> IF k = i THEN corp[j] ELSE IF k = j THEN corp[i] ELSE corp[k]]

Reverse(corp) == [k \in 1..Len(corp) |-> corp[Len(corp) + 1 - k]]

\* orders of the same words: all of them for a corpus of up to MaxCorpus + 1
\* words, and for a longer one the reversal, the rotations and the exchanges
\* of two words
Rearrangements(corp) ==
    IF Len(corp) <= MaxCorpus + 1
    THEN {[k \in 1..Len(corp) |-> corp[p[k]]] :
             p \in {q \in [1..Len(corp) -> 1..Len(corp)] :
                       \A a, b \in 1..Len(corp) : q[a] = q[b] => a = b}}
    ELSE {Reverse(corp)}
            \cup {Rotate(corp, k) : k \in 1..Len(corp)}
            \cup {Exchange(corp, i, j) : i, j \in 1..Len(corp)}

Items(counts) == {<<counts[i].key, counts[i].value>> : i \in 1..Len(counts)}

Members(lst) == {lst[i] : i \in 1..Len(lst)}

\* C29: built from the same words in another order, the object has the same
\* keys with the same frequencies in token_counts and the same set of
\* symbols in vocab.
C29_InitializationIgnoresCorpusOrder ==
    log = <<>> =>
        \A other \in Rearrangements(corpus) :
            /\ Items(count_tokens(other)) = Items(token_counts)
            /\ Len(count_tokens(other)) = Len(token_counts)
            /\ \A seed \in 0..(HashSeeds - 1) :
                  Members(initialize_vocab(count_tokens(other), seed)) = Members(vocab)

\* two different words: the other order lists the keys the other way round
C29_Witness ==
    /\ corpus = <<Str_ab, Str_aaa>>
    /\ log = <<>>
    /\ count_tokens(Reverse(corpus)) # token_counts
    /\ Items(count_tokens(Reverse(corpus))) = Items(token_counts)
    /\ Members(vocab) = {<<"a">>, <<"b">>, EndOfWord}

====
